---------------------------- MODULE Spec2Model ----------------------------
(***************************************************************************)
(* Model of the snapshot ingest handler of investment-history-service      *)
(* (src/src/index.mjs): the validation pipeline of lambdaHandler, the      *)
(* DynamoDB upsert it issues and the responses it returns.                 *)
(*                                                                         *)
(* Numbers.  A finite JavaScript number is represented by an integer count *)
(* of thousandths: Num(1125) is 1.125, Num(-125) is -0.125, Num(2000) is   *)
(* 2.  The clock is in milliseconds, so a time in seconds and a number     *)
(* share the unit.  The numbers the model feeds to the handler are either  *)
(* multiples of 0.125 (exact binary fractions, for which the double        *)
(* product v * 100 is exact) or have a third decimal other than 5 (for     *)
(* which v * 100 is at least 0.1 away from a rounding boundary), so that   *)
(* Math.round(v * 100) on doubles gives the integer computed here.         *)
(*                                                                         *)
(* Strings.  A string value is a sequence of one-character strings, so     *)
(* that the conversion of a string to a number is computed from its        *)
(* characters.  A request body that is a string is a sequence of JSON      *)
(* tokens, so that JSON.parse is computed from the text.                   *)
(***************************************************************************)
EXTENDS Integers, Sequences, FiniteSets, TLC

(***************************************************************************)
(* JavaScript values                                                       *)
(***************************************************************************)
Undefined == [t |-> "undefined"]
Null      == [t |-> "null"]
Num(m)    == [t |-> "number", m |-> m]
NaN       == [t |-> "nan"]
PosInf    == [t |-> "inf", neg |-> FALSE]
NegInf    == [t |-> "inf", neg |-> TRUE]
Str(s)    == [t |-> "string", s |-> s]
Bool(b)   == [t |-> "boolean", b |-> b]
\* an object literal; a key that is absent reads as Undefined
Obj(ti, tv, ts) ==
  [t |-> "object", total_invested |-> ti, total_value |-> tv, timestamp |-> ts]
\* the empty array []
Arr       == [t |-> "array"]
\* a string body, lexed into JSON tokens
Text(toks) == [t |-> "text", toks |-> toks]

\* typeof v === 'string'
IsString(v) == v.t \in {"string", "text"}

\* ToBoolean: the falsy values are undefined, null, false, 0, NaN and ""
ToBoolean(v) ==
  CASE v.t \in {"undefined", "null", "nan"} -> FALSE
    [] v.t = "boolean" -> v.b
    [] v.t = "number"  -> v.m # 0
    [] v.t = "string"  -> v.s # <<>>
    [] v.t = "text"    -> v.toks # <<>>
    [] OTHER           -> TRUE

\* Number.isFinite
IsFinite(n) == n.t = "number"

(***************************************************************************)
(* ToNumber on strings (StringToNumber): white space is trimmed, the empty *)
(* string is 0, then an optional sign and either Infinity or decimal       *)
(* digits with an optional point.  Exponents and radix prefixes are not in *)
(* the alphabet of the inputs of this model.                               *)
(***************************************************************************)
Digits == {"0", "1", "2", "3", "4", "5", "6", "7", "8", "9"}

DigitVal(c) ==
  CASE c = "0" -> 0 [] c = "1" -> 1 [] c = "2" -> 2 [] c = "3" -> 3
    [] c = "4" -> 4 [] c = "5" -> 5 [] c = "6" -> 6 [] c = "7" -> 7
    [] c = "8" -> 8 [] c = "9" -> 9

RECURSIVE DigitsValue(_)
DigitsValue(s) ==
  IF s = <<>> THEN 0
  ELSE 10 * DigitsValue(SubSeq(s, 1, Len(s) - 1)) + DigitVal(s[Len(s)])

AllDigits(s) == \A i \in 1..Len(s) : s[i] \in Digits

RECURSIVE TrimLeft(_)
TrimLeft(s) == IF s # <<>> /\ s[1] = " " THEN TrimLeft(Tail(s)) ELSE s

RECURSIVE TrimRight(_)
TrimRight(s) ==
  IF s # <<>> /\ s[Len(s)] = " " THEN TrimRight(SubSeq(s, 1, Len(s) - 1)) ELSE s

\* the fraction digits as thousandths (the inputs carry at most three)
FracValue(f) ==
  LET f3 == SubSeq(f \o <<"0", "0", "0">>, 1, 3) IN DigitsValue(f3)

\* an unsigned decimal literal: digits, digits. , digits.digits or .digits
UnsignedToNumber(s) ==
  LET dots == {i \in 1..Len(s) : s[i] = "."}
      dot  == IF dots = {} THEN Len(s) + 1
              ELSE CHOOSE i \in dots : \A j \in dots : i <= j
      int  == SubSeq(s, 1, dot - 1)
      frac == SubSeq(s, dot + 1, Len(s))
  IN IF s = <<"I", "n", "f", "i", "n", "i", "t", "y">> THEN PosInf
     ELSE IF AllDigits(int) /\ AllDigits(frac) /\ Len(int) + Len(frac) > 0
          THEN Num(1000 * DigitsValue(int) + FracValue(frac))
          ELSE NaN

Negate(n) ==
  CASE n.t = "number" -> Num(0 - n.m)
    [] n.t = "inf"    -> [t |-> "inf", neg |-> ~n.neg]
    [] OTHER          -> n

StringToNumber(s) ==
  LET w == TrimRight(TrimLeft(s)) IN
  IF w = <<>> THEN Num(0)
  ELSE IF w[1] = "-" THEN Negate(UnsignedToNumber(Tail(w)))
  ELSE IF w[1] = "+" THEN UnsignedToNumber(Tail(w))
  ELSE UnsignedToNumber(w)

\* unary plus: +v
ToNumber(v) ==
  CASE v.t = "undefined" -> NaN
    [] v.t = "null"      -> Num(0)
    [] v.t = "boolean"   -> IF v.b THEN Num(1000) ELSE Num(0)
    [] v.t = "number"    -> v
    [] v.t = "nan"       -> v
    [] v.t = "inf"       -> v
    [] v.t = "string"    -> StringToNumber(v.s)
    [] v.t = "array"     -> Num(0)
    [] OTHER             -> NaN

(***************************************************************************)
(* JSON.parse on a token sequence.  The grammar covers the bodies the      *)
(* handler is written for: a scalar, the empty array, or a flat object     *)
(* whose member values are scalars.  Everything else is a SyntaxError.     *)
(***************************************************************************)
LBrace   == [k |-> "{"]
RBrace   == [k |-> "}"]
LBracket == [k |-> "["]
RBracket == [k |-> "]"]
Colon    == [k |-> ":"]
Comma    == [k |-> ","]
Key(name) == [k |-> "key", name |-> name]
Lit(v)    == [k |-> "lit", v |-> v]
\* a fragment that is no JSON token: a bare word, NaN, a single quote
Bad      == [k |-> "bad"]

FieldNames == {"total_invested", "total_value", "timestamp"}
EmptyObj == Obj(Undefined, Undefined, Undefined)

SyntaxError == [ok |-> FALSE]
Parsed(v)   == [ok |-> TRUE, value |-> v]

\* a key the handler never reads is dropped; a repeated key keeps its last value
SetField(obj, name, v) ==
  IF name \in FieldNames THEN [obj EXCEPT ![name] = v] ELSE obj

RECURSIVE ParseMembers(_, _, _)
ParseMembers(toks, i, obj) ==
  IF i + 3 > Len(toks) THEN SyntaxError
  ELSE IF toks[i].k # "key" \/ toks[i + 1].k # ":" \/ toks[i + 2].k # "lit"
       THEN SyntaxError
  ELSE LET o2 == SetField(obj, toks[i].name, toks[i + 2].v) IN
       IF toks[i + 3].k = "}"
       THEN (IF i + 3 = Len(toks) THEN Parsed(o2) ELSE SyntaxError)
       ELSE IF toks[i + 3].k = ","
            THEN ParseMembers(toks, i + 4, o2)
            ELSE SyntaxError

JSONparse(toks) ==
  IF Len(toks) = 1 /\ toks[1].k = "lit" THEN Parsed(toks[1].v)
  ELSE IF toks = <<LBracket, RBracket>> THEN Parsed(Arr)
  ELSE IF toks = <<LBrace, RBrace>> THEN Parsed(EmptyObj)
  ELSE IF Len(toks) >= 1 /\ toks[1].k = "{" THEN ParseMembers(toks, 2, EmptyObj)
  ELSE SyntaxError

\* payload[name]: a property read; a primitive or an array has none of the fields
GetField(payload, name) ==
  IF payload.t = "object" THEN payload[name] ELSE Undefined

\* const { ... } = payload throws a TypeError on null and undefined
DestructureThrows(payload) == payload.t \in {"null", "undefined"}

(***************************************************************************)
(* Responses                                                               *)
(***************************************************************************)
JSON_HEADERS == [ContentType |-> "application/json"]

Response(status, body) ==
  [threw |-> FALSE, statusCode |-> status, headers |-> JSON_HEADERS, body |-> body]

\* the promise rejects: no response object reaches the caller
Thrown(name) ==
  [threw |-> TRUE, statusCode |-> 0, headers |-> JSON_HEADERS, body |-> [exception |-> name]]

NoResponse ==
  [threw |-> FALSE, statusCode |-> 0, headers |-> JSON_HEADERS, body |-> [none |-> TRUE]]

ErrorBody(msg) == [error |-> msg]

(***************************************************************************)
(* The validation functions                                                *)
(***************************************************************************)
\* a variant that takes only a missing key for a missing body
validateRequestBodyUndefinedOnly(event) ==
  IF event.body.t = "undefined"
  THEN [isValid |-> FALSE, error |-> Response(400, ErrorBody("missing body"))]
  ELSE [isValid |-> TRUE]

validateRequestBody(event) ==
  IF ~ToBoolean(event.body)
  THEN [isValid |-> FALSE, error |-> Response(400, ErrorBody("missing body"))]
  ELSE [isValid |-> TRUE]

parseAndValidateJson(body) ==
  LET r == IF IsString(body) THEN JSONparse(body.toks) ELSE Parsed(body) IN
  IF r.ok
  THEN [isValid |-> TRUE, payload |-> r.value]
  ELSE [isValid |-> FALSE, error |-> Response(400, ErrorBody("invalid JSON body"))]

\* a variant that checks total_value before total_invested
validateRequiredFieldsValueFirst(payload) ==
  LET tiRaw == GetField(payload, "total_invested")
      tvRaw == GetField(payload, "total_value")
  IN IF tvRaw.t \in {"undefined", "null"}
     THEN [isValid |-> FALSE,
           error |-> Response(400, ErrorBody("missing required field: total_value"))]
     ELSE IF tiRaw.t \in {"undefined", "null"}
     THEN [isValid |-> FALSE,
           error |-> Response(400, ErrorBody("missing required field: total_invested"))]
     ELSE [isValid |-> TRUE, tiRaw |-> tiRaw, tvRaw |-> tvRaw]

validateRequiredFields(payload) ==
  LET tiRaw == GetField(payload, "total_invested")
      tvRaw == GetField(payload, "total_value")
  IN IF tiRaw.t \in {"undefined", "null"}
     THEN [isValid |-> FALSE,
           error |-> Response(400, ErrorBody("missing required field: total_invested"))]
     ELSE IF tvRaw.t \in {"undefined", "null"}
     THEN [isValid |-> FALSE,
           error |-> Response(400, ErrorBody("missing required field: total_value"))]
     ELSE [isValid |-> TRUE, tiRaw |-> tiRaw, tvRaw |-> tvRaw]

\* Math.round(n * 100) / 100: Math.round is floor(x + 0.5), halves go up
RoundToCents(n) == Num(10 * ((n.m + 5) \div 10))

validateAndConvertNumbers(tiRaw, tvRaw) ==
  LET total_invested == ToNumber(tiRaw)
      total_value    == ToNumber(tvRaw)
  IN IF ~IsFinite(total_invested)
     THEN [isValid |-> FALSE,
           error |-> Response(400, ErrorBody("total_invested must be a valid number"))]
     ELSE IF ~IsFinite(total_value)
     THEN [isValid |-> FALSE,
           error |-> Response(400, ErrorBody("total_value must be a valid number"))]
     ELSE [isValid |-> TRUE,
           ti |-> RoundToCents(total_invested), tv |-> RoundToCents(total_value)]

\* Math.floor(Date.now() / 1000), clock in milliseconds
UnixSeconds(clock) == Num(1000 * (clock \div 1000))

\* a variant that leaves out Math.floor
processTimestampNoFloor(tsRaw, clock) ==
  IF ToBoolean(tsRaw)
  THEN (IF ToBoolean(ToNumber(tsRaw)) THEN ToNumber(tsRaw) ELSE Num(clock))
  ELSE Num(clock)

\* tsRaw ? +tsRaw || now : now
processTimestamp(tsRaw, clock) ==
  IF ToBoolean(tsRaw)
  THEN (IF ToBoolean(ToNumber(tsRaw)) THEN ToNumber(tsRaw) ELSE UnixSeconds(clock))
  ELSE UnixSeconds(clock)

(***************************************************************************)
(* lambdaHandler up to its await: it returns a response, throws, or has    *)
(* sent the UpdateCommand and waits for the store.                         *)
(***************************************************************************)
Return(resp) == [kind |-> "return", resp |-> resp]
Send(timestamp, ti, tv) ==
  [kind |-> "send", timestamp |-> timestamp, ti |-> ti, tv |-> tv]

lambdaHandler(event, clock) ==
  LET bodyValidation == validateRequestBody(event) IN
  IF ~bodyValidation.isValid THEN Return(bodyValidation.error)
  ELSE
  LET jsonValidation == parseAndValidateJson(event.body) IN
  IF ~jsonValidation.isValid THEN Return(jsonValidation.error)
  ELSE
  LET payload == jsonValidation.payload IN
  IF DestructureThrows(payload) THEN Return(Thrown("TypeError"))
  ELSE
  LET tsRaw == GetField(payload, "timestamp")
      fieldsValidation == validateRequiredFields(payload)
  IN
  IF ~fieldsValidation.isValid THEN Return(fieldsValidation.error)
  ELSE
  LET numbersValidation ==
        validateAndConvertNumbers(fieldsValidation.tiRaw, fieldsValidation.tvRaw)
  IN
  IF ~numbersValidation.isValid THEN Return(numbersValidation.error)
  ELSE Send(processTimestamp(tsRaw, clock), numbersValidation.ti, numbersValidation.tv)

(***************************************************************************)
(* The store: the table behind ddbClient, a set of items keyed by          *)
(* timestamp.  UpdateCommand with SET creates the item when the key is new *)
(* and otherwise replaces the two attributes of the item in place, in one  *)
(* atomic step; ReturnValues ALL_NEW hands back the item as it is after    *)
(* the update.  The document client refuses to marshall NaN and the        *)
(* infinities, so an UpdateCommand with such a key is rejected.            *)
(***************************************************************************)
Item(timestamp, ti, tv) ==
  [timestamp |-> timestamp, total_invested |-> ti, total_value |-> tv]

Marshallable(n) == n.t = "number"

ItemsAt(table, key) == {it \in table : it.timestamp = key}

\* a variant that sets total_value only when it creates the item
UpdateItemKeepsValue(table, key, ti, tv) ==
  LET old == ItemsAt(table, key)
      new == IF old = {} THEN Item(key, ti, tv)
             ELSE [(CHOOSE it \in old : TRUE) EXCEPT !.total_invested = ti]
  IN (table \ old) \cup {new}

UpdateItem(table, key, ti, tv) ==
  LET old == ItemsAt(table, key)
      new == IF old = {} THEN Item(key, ti, tv)
             ELSE [(CHOOSE it \in old : TRUE)
                     EXCEPT !.total_invested = ti, !.total_value = tv]
  IN (table \ old) \cup {new}

\* result.Attributes under ReturnValues: 'ALL_NEW'
AllNew(table, key) == CHOOSE it \in ItemsAt(table, key) : TRUE

\* the two ways the handler leaves its await
\* a variant for ReturnValues: 'UPDATED_NEW', which leaves the key out
SuccessResponseUpdatedNew(attributes) ==
  Response(200, [message |-> "success",
                 item |-> [total_invested |-> attributes.total_invested,
                           total_value |-> attributes.total_value]])

SuccessResponse(attributes) ==
  Response(200, [message |-> "success", item |-> attributes])

\* a variant whose catch block throws again
DatabaseErrorRethrown(message) == Thrown("Error")

DatabaseErrorResponse(message) ==
  Response(500, [error |-> "database_error", details |-> message])

\* err.message of a rejected send
StoreErrors == {"Requested resource not found", "connect ETIMEDOUT"}
MarshallError == "Special numeric value Infinity is not allowed"

(***************************************************************************)
(* Requests                                                                *)
(***************************************************************************)
\* "abc", "1.125", "2", "0", "not-a-date", "Infinity"
SAbc       == <<"a", "b", "c">>
SOne125    == <<"1", ".", "1", "2", "5">>
STwo       == <<"2">>
SZero      == <<"0">>
SNotADate  == <<"n", "o", "t", "-", "a", "-", "d", "a", "t", "e">>
SInfinity  == <<"I", "n", "f", "i", "n", "i", "t", "y">>

TiVals ==
  {Undefined, Null, Num(-125), Num(125), Num(1004), NaN, PosInf,
   Str(<<>>), Str(SAbc), Str(SOne125), Bool(TRUE)}
TvVals ==
  {Undefined, Null, Num(250), Num(-375), NegInf, Str(SAbc), Bool(FALSE)}
TsVals ==
  {Undefined, Null, Num(0), Num(2000), Num(1500),
   Str(STwo), Str(SZero), Str(SNotADate), Str(SInfinity), Bool(TRUE)}

\* the values JSON text can carry
JsonScalar(v) == v.t \in {"null", "number", "string", "boolean"}

\* the text of an object: a member for every key that is present
Member(name, v) ==
  IF v.t = "undefined" THEN <<>> ELSE <<<<Key(name), Colon, Lit(v)>>>>

RECURSIVE JoinMembers(_)
JoinMembers(ms) ==
  IF ms = <<>> THEN <<>>
  ELSE IF Len(ms) = 1 THEN ms[1]
  ELSE ms[1] \o <<Comma>> \o JoinMembers(Tail(ms))

ObjectText(o) ==
  Text(<<LBrace>>
       \o JoinMembers(Member("total_invested", o.total_invested)
                      \o Member("total_value", o.total_value)
                      \o Member("timestamp", o.timestamp))
       \o <<RBrace>>)

Objects == {Obj(ti, tv, ts) : ti \in TiVals, tv \in TvVals, ts \in TsVals}

\* the objects sent as text: those JSON can carry, over three values of total_value
JsonObjects ==
  {o \in Objects :
     /\ \A f \in FieldNames : o[f].t = "undefined" \/ JsonScalar(o[f])
     /\ o.total_value \in {Undefined, Num(250), Str(SAbc)}}

\* bodies that are no JSON: {not json, an unterminated object, a NaN literal,
\* a trailing comma, a bare word
MalformedTexts ==
  {Text(<<LBrace, Bad, Bad>>),
   Text(<<LBrace, Key("total_invested"), Colon, Lit(Num(1000))>>),
   Text(<<LBrace, Key("total_invested"), Colon, Bad, RBrace>>),
   Text(<<LBrace, Key("total_invested"), Colon, Lit(Num(1000)), Comma, RBrace>>),
   Text(<<Bad>>)}

\* JSON texts of null, 5, "abc", true, [], and objects with an unread key and
\* with a repeated key
OtherTexts ==
  {Text(<<Lit(Null)>>), Text(<<Lit(Num(5000))>>), Text(<<Lit(Str(SAbc))>>),
   Text(<<Lit(Bool(TRUE))>>), Text(<<LBracket, RBracket>>), Text(<<LBrace, RBrace>>),
   Text(<<LBrace, Key("note"), Colon, Lit(Str(SAbc)), Comma,
          Key("total_invested"), Colon, Lit(Num(125)), Comma,
          Key("total_value"), Colon, Lit(Num(250)), RBrace>>),
   Text(<<LBrace, Key("total_invested"), Colon, Lit(Str(SAbc)), Comma,
          Key("total_invested"), Colon, Lit(Num(125)), Comma,
          Key("total_value"), Colon, Lit(Num(250)), RBrace>>)}

\* no body, null, the empty string, and pre-parsed values that are no object
OtherBodies ==
  {Undefined, Null, Text(<<>>), Num(0), Bool(FALSE), Num(5000), Bool(TRUE), Arr}

Bodies ==
  Objects \cup {ObjectText(o) : o \in JsonObjects}
    \cup MalformedTexts \cup OtherTexts \cup OtherBodies

Events == {[body |-> b] : b \in Bodies}

\* the requests of the concurrent specification
ParBodies ==
  {Obj(ti, Num(250), ts) : ti \in {Num(125), Num(1004)}, ts \in {Undefined, Num(2000)}}
    \cup {ObjectText(Obj(Num(-125), Num(-375), Num(2000))), Undefined}

ParEvents == {[body |-> b] : b \in ParBodies}

(***************************************************************************)
(* State                                                                   *)
(***************************************************************************)
\* handler instances (isolated processes sharing the table)
Instances == {"a", "b"}

MaxRequests    == 1
MaxParRequests == 3
MaxTicks       == 1
ClockStart     == 1500
TickMs         == 500

VARIABLES
  store,      \* the table: a set of items
  now,        \* Date.now(), milliseconds
  inst,       \* per instance: the invocation in progress
  requests,   \* invocations started so far
  lastWrite   \* history: per key, the values of the last upsert that succeeded

vars == <<store, now, inst, requests, lastWrite>>

NoEvent == [body |-> [t |-> "none"]]
NoCmd   == Send(Undefined, Undefined, Undefined)

\* between invocations an instance holds nothing but the client
\* event, clockRead, cmd: the request, the clock it saw, the command it sent
\* calls: the store calls this invocation has issued
\* sent: how the store call ended: "none", "resolved" or "rejected"
\* prev: the status the previous invocation ended with (history)
Idle(prev) ==
  [pc |-> "idle", event |-> NoEvent, clockRead |-> 0, cmd |-> NoCmd,
   calls |-> 0, sent |-> "none", resp |-> NoResponse, prev |-> prev]

Init ==
  /\ store = {}
  /\ now = ClockStart
  /\ inst = [i \in Instances |-> Idle(0)]
  /\ requests = 0
  /\ lastWrite = <<>>

\* the runtime calls lambdaHandler(event): the handler runs to its first await
Invoke(i, e) ==
  /\ inst[i].pc = "idle"
  /\ LET r == lambdaHandler(e, now) IN
     inst' = [inst EXCEPT ![i] =
       IF r.kind = "send"
       THEN [pc |-> "sending", event |-> e, clockRead |-> now, cmd |-> r,
             calls |-> 1, sent |-> "none", resp |-> NoResponse, prev |-> @.prev]
       ELSE [pc |-> "done", event |-> e, clockRead |-> now, cmd |-> NoCmd,
             calls |-> 0, sent |-> "none", resp |-> r.resp, prev |-> @.prev]]
  /\ requests' = requests + 1
  /\ UNCHANGED <<store, now, lastWrite>>

\* ddbClient.send resolves: the update is applied and the handler returns 200
SendResolves(i) ==
  /\ inst[i].pc = "sending"
  /\ Marshallable(inst[i].cmd.timestamp)
  /\ LET c == inst[i].cmd IN
     /\ store' = UpdateItem(store, c.timestamp, c.ti, c.tv)
     /\ inst' = [inst EXCEPT ![i].pc = "done", ![i].sent = "resolved",
                             ![i].resp = SuccessResponse(AllNew(store', c.timestamp))]
     /\ lastWrite' = [k \in DOMAIN lastWrite \cup {c.timestamp} |->
                        IF k = c.timestamp THEN <<c.ti, c.tv>> ELSE lastWrite[k]]
  /\ UNCHANGED <<now, requests>>

\* a variant with the client's default of retrying: a second attempt is issued
\* before the catch block answers
SendRejectsRetry(i, message) ==
  /\ inst[i].pc = "sending"
  /\ IF Marshallable(inst[i].cmd.timestamp)
     THEN message \in StoreErrors
     ELSE message = MarshallError
  /\ inst' = [inst EXCEPT ![i].pc = "done", ![i].sent = "rejected",
                          ![i].calls = @ + 1,
                          ![i].resp = DatabaseErrorResponse(message)]
  /\ UNCHANGED <<store, now, requests, lastWrite>>

\* ddbClient.send rejects (maxAttempts: 1, so after a single attempt): nothing is
\* applied and the catch block returns 500
SendRejects(i, message) ==
  /\ inst[i].pc = "sending"
  /\ IF Marshallable(inst[i].cmd.timestamp)
     THEN message \in StoreErrors
     ELSE message = MarshallError
  /\ inst' = [inst EXCEPT ![i].pc = "done", ![i].sent = "rejected",
                          ![i].resp = DatabaseErrorResponse(message)]
  /\ UNCHANGED <<store, now, requests, lastWrite>>

\* the response (or the rejection) reaches the runtime; the instance is free again
Complete(i) ==
  /\ inst[i].pc = "done"
  /\ inst' = [inst EXCEPT ![i] = Idle(inst[i].resp.statusCode)]
  /\ UNCHANGED <<store, now, requests, lastWrite>>

Tick ==
  /\ now < ClockStart + MaxTicks * TickMs
  /\ now' = now + TickMs
  /\ UNCHANGED <<store, inst, requests, lastWrite>>

AllMessages == StoreErrors \cup {MarshallError}

\* one instance, the whole request space
Next ==
  \/ \E e \in Events : requests < MaxRequests /\ Invoke("a", e)
  \/ SendResolves("a")
  \/ \E m \in AllMessages : SendRejects("a", m)
  \/ Complete("a")
  \/ Tick

Spec == Init /\ [][Next]_vars

\* instances in parallel on one table
NextPar ==
  \/ \E i \in Instances, e \in ParEvents : requests < MaxParRequests /\ Invoke(i, e)
  \/ \E i \in Instances : SendResolves(i)
  \/ \E i \in Instances, m \in AllMessages : SendRejects(i, m)
  \/ \E i \in Instances : Complete(i)
  \/ Tick

SpecPar == Init /\ [][NextPar]_vars
(***************************************************************************)
(* What a request carries, read off the event alone                        *)
(***************************************************************************)
Busy(i)  == inst[i].pc \in {"sending", "done"}
Done(i)  == inst[i].pc = "done"

\* the body is absent: no key, null, or an empty body
BodyAbsent(e) == e.body.t \in {"undefined", "null"} \/ e.body = Text(<<>>)

\* what the body parses to; a body that is no string is taken as it is
ParseOf(e) == IF IsString(e.body) THEN JSONparse(e.body.toks) ELSE Parsed(e.body)

\* the body yields a payload with fields to look at: any JSON value but null
HasPayload(e) == ToBoolean(e.body) /\ ParseOf(e).ok /\ ParseOf(e).value.t # "null"

RawTi(e) == GetField(ParseOf(e).value, "total_invested")
RawTv(e) == GetField(ParseOf(e).value, "total_value")
RawTs(e) == GetField(ParseOf(e).value, "timestamp")

Missing(v) == v.t \in {"undefined", "null"}

Rejected(i, msg) ==
  /\ inst[i].resp = Response(400, ErrorBody(msg))
  /\ inst[i].calls = 0

\* a step in which an invocation ends without having called the store
\* leaves the table as it was
RejectionWritesNothing ==
  \A i \in Instances :
    (inst[i].pc = "idle" /\ inst'[i].pc = "done") => store' = store

(***************************************************************************)
(* C1: a payload in which total_invested or total_value is absent,         *)
(* undefined or null is answered 400 "missing required field: <name>",     *)
(* whatever the other fields hold; <name> is total_invested when that      *)
(* field is missing, total_value only when total_invested is present; the  *)
(* store is not called and the table is not written.                       *)
(***************************************************************************)
C1_MissingFieldState ==
  \A i \in Instances :
    Done(i) /\ HasPayload(inst[i].event) =>
      LET e == inst[i].event IN
      /\ Missing(RawTi(e)) =>
           Rejected(i, "missing required field: total_invested")
      /\ ~Missing(RawTi(e)) /\ Missing(RawTv(e)) =>
           Rejected(i, "missing required field: total_value")

ListedInvalid(v) ==
  \/ v.t \in {"boolean", "nan", "inf"}
  \/ v.t = "string" /\ (v.s = <<>> \/ ~IsFinite(StringToNumber(v.s)))

C2_InvalidNumber ==
  \A i \in Instances :
    Done(i) /\ HasPayload(inst[i].event)
      /\ ~Missing(RawTi(inst[i].event)) /\ ~Missing(RawTv(inst[i].event)) =>
      LET e == inst[i].event IN
      /\ ListedInvalid(RawTi(e)) =>
           Rejected(i, "total_invested must be a valid number")
      /\ ~ListedInvalid(RawTi(e)) /\ ListedInvalid(RawTv(e)) =>
           Rejected(i, "total_value must be a valid number")

(***************************************************************************)
(* C3: after any interleaving of requests, also of instances running in    *)
(* parallel, the table holds at most one item per timestamp key, and that  *)
(* item is in full the (total_invested, total_value) pair of the last      *)
(* upsert that succeeded on the key: never one field of one request and    *)
(* the other field of another.                                             *)
(***************************************************************************)
C3_LastWriteWins ==
  /\ \A it \in store :
       /\ it.timestamp \in DOMAIN lastWrite
       /\ <<it.total_invested, it.total_value>> = lastWrite[it.timestamp]
  /\ \A k \in DOMAIN lastWrite : Cardinality(ItemsAt(store, k)) = 1

\* two instances have both written the same key, with different values
C3_Witness ==
  /\ Done("a") /\ Done("b")
  /\ inst["a"].sent = "resolved" /\ inst["b"].sent = "resolved"
  /\ inst["a"].cmd.timestamp = inst["b"].cmd.timestamp
  /\ inst["a"].cmd.ti # inst["b"].cmd.ti
  /\ inst["a"].cmd.tv # inst["b"].cmd.tv
  /\ Cardinality(store) = 1

(***************************************************************************)
(* C4: every accepted value v of total_invested or total_value, positive   *)
(* or negative, reaches the upsert rounded to 2 decimals by round half     *)
(* away from zero: a value half a cent beyond a cent boundary in magnitude *)
(* moves away from zero, for both signs.                                   *)
(***************************************************************************)
RoundHalfAwayFromZero(n) ==
  IF n.m >= 0 THEN Num(10 * ((n.m + 5) \div 10))
  ELSE Num(0 - 10 * ((0 - n.m + 5) \div 10))

C4_RoundHalfAway ==
  \A i \in Instances :
    Busy(i) /\ inst[i].calls = 1 =>
      /\ inst[i].cmd.ti = RoundHalfAwayFromZero(ToNumber(RawTi(inst[i].event)))
      /\ inst[i].cmd.tv = RoundHalfAwayFromZero(ToNumber(RawTv(inst[i].event)))

(***************************************************************************)
(* C5: for every event and every store outcome lambdaHandler returns a     *)
(* response with status 200, 400 or 500 and never lets an exception        *)
(* escape, also for a body string that parses to null or to a non-object   *)
(* and for a pre-parsed body of any shape.                                 *)
(***************************************************************************)
C5_AlwaysResponds ==
  \A i \in Instances :
    Done(i) => ~inst[i].resp.threw /\ inst[i].resp.statusCode \in {200, 400, 500}

(***************************************************************************)
(* C6: with valid required fields, a timestamp that is present and coerces *)
(* to a finite number under the rule of step 4 (a number or a              *)
(* numeric-looking string, the value 0 included) is the key of the upsert, *)
(* and the clock is the key only when the timestamp is absent, null or     *)
(* coerces to no valid number.                                             *)
(***************************************************************************)
\* step 4 as the specification words it: numbers and numeric-looking strings
CoercesToNumber(v) ==
  \/ v.t = "number"
  \/ v.t = "string" /\ v.s # <<>> /\ IsFinite(StringToNumber(v.s))

C6_ExplicitTimestampIsKey ==
  \A i \in Instances :
    Busy(i) /\ inst[i].calls = 1 =>
      LET ts == RawTs(inst[i].event) IN
      inst[i].cmd.timestamp =
        IF CoercesToNumber(ts) THEN ToNumber(ts) ELSE UnixSeconds(inst[i].clockRead)

\* both required fields are present and convert to finite numbers
RequiredValid(e) ==
  /\ HasPayload(e)
  /\ ~Missing(RawTi(e)) /\ IsFinite(ToNumber(RawTi(e)))
  /\ ~Missing(RawTv(e)) /\ IsFinite(ToNumber(RawTv(e)))

\* n is the floor, in whole seconds, of the clock value ms
FloorOfClock(n, ms) ==
  n.t = "number" /\ n.m % 1000 = 0 /\ n.m <= ms /\ ms < n.m + 1000

(***************************************************************************)
(* C7: with valid required fields, a timestamp that is absent, null or     *)
(* converts to no valid number (such as "not-a-date") never causes a 400:  *)
(* the request goes to the store, and when the store call succeeds the     *)
(* answer is 200 and the key of the persisted record is the floor of the   *)
(* clock, in unix seconds, at the moment the request was processed.        *)
(***************************************************************************)
NoUsableTimestamp(e) == Missing(RawTs(e)) \/ ~IsFinite(ToNumber(RawTs(e)))

C9_BodyClassesState ==
  \A i \in Instances :
    Done(i) =>
      LET e == inst[i].event IN
      /\ BodyAbsent(e) => Rejected(i, "missing body")
      /\ IsString(e.body) /\ ~BodyAbsent(e) /\ ~JSONparse(e.body.toks).ok =>
           Rejected(i, "invalid JSON body")
      /\ e.body.t \in {"object", "array"} =>
           /\ inst[i].resp.body \notin
                {ErrorBody("missing body"), ErrorBody("invalid JSON body")}
           /\ RequiredValid(e) =>
                /\ inst[i].calls = 1
                /\ inst[i].cmd.ti = RoundToCents(ToNumber(e.body.total_invested))

C9_BodyClasses == []C9_BodyClassesState /\ [][RejectionWritesNothing]_vars

\* a body with a NaN literal in it was refused as invalid JSON
C9_Witness ==
  \E i \in Instances :
    /\ Done(i)
    /\ inst[i].event.body = Text(<<LBrace, Key("total_invested"), Colon, Bad, RBrace>>)
    /\ Rejected(i, "invalid JSON body")

(***************************************************************************)
(* C10: when the store call fails for a request that passed validation,    *)
(* the answer is 500 with error "database_error" and a details field, the  *)
(* table is left as it was, and the instance keeps nothing from the        *)
(* failure: its next invocation with a valid request goes to the store     *)
(* and, the store working, answers 200 and writes its record.              *)
(***************************************************************************)
C10_FailureState ==
  \A i \in Instances :
    /\ Done(i) /\ inst[i].sent = "rejected" =>
         /\ ~inst[i].resp.threw
         /\ inst[i].resp.statusCode = 500
         /\ DOMAIN inst[i].resp.body = {"error", "details"}
         /\ inst[i].resp.body.error = "database_error"
    /\ Busy(i) /\ inst[i].prev = 500 /\ RequiredValid(inst[i].event) =>
         inst[i].calls = 1
    /\ Done(i) /\ inst[i].prev = 500 /\ inst[i].sent = "resolved" =>
         inst[i].resp.statusCode = 200

C10_FailureStep ==
  \A i \in Instances :
    /\ inst[i].pc = "sending" /\ inst'[i].sent = "rejected" => store' = store
    /\ inst[i].pc = "sending" /\ inst[i].prev = 500 /\ inst'[i].sent = "resolved" =>
         Item(inst[i].cmd.timestamp, inst[i].cmd.ti, inst[i].cmd.tv) \in store'

C10_StoreFailure == []C10_FailureState /\ [][C10_FailureStep]_vars

\* an instance whose previous invocation ended in 500 has now answered 200
C10_Witness ==
  \E i \in Instances :
    /\ Done(i) /\ inst[i].prev = 500
    /\ inst[i].resp.statusCode = 200
    /\ inst[i].resp.body.item \in store

(***************************************************************************)
(* C11: on a persistence failure the response does not depend on the       *)
(* error detail of the store: two runs of the same request that fail with  *)
(* different store error messages are answered with identical 500          *)
(* responses.  The two runs are the two instances handling the same event. *)
(***************************************************************************)
C11_FailureResponseIsGeneric ==
  \A i, j \in Instances :
    /\ Done(i) /\ Done(j)
    /\ inst[i].event = inst[j].event
    /\ inst[i].sent = "rejected" /\ inst[j].sent = "rejected"
    => inst[i].resp = inst[j].resp

(***************************************************************************)
(* C12: an invocation of lambdaHandler calls the store at most once:       *)
(* exactly once when every validation step passes, with no second attempt  *)
(* after a failure, and not at all on a path that answers 400; the table   *)
(* is changed only by a store call that succeeds, so a request that fails  *)
(* validation leaves it as it was.                                         *)
(***************************************************************************)
C12_CallsState ==
  \A i \in Instances :
    /\ inst[i].calls \in {0, 1}
    /\ Busy(i) /\ RequiredValid(inst[i].event) => inst[i].calls = 1
    /\ Busy(i) /\ ~RequiredValid(inst[i].event) =>
         inst[i].calls = 0 /\ inst[i].sent = "none"
    /\ Done(i) /\ inst[i].resp.statusCode = 400 =>
         inst[i].calls = 0 /\ inst[i].sent = "none"

C12_WriteStep ==
  store' # store =>
    \E i \in Instances :
      /\ inst[i].pc = "sending" /\ inst[i].calls = 1
      /\ inst'[i].sent = "resolved" /\ inst'[i].calls = 1
      /\ RequiredValid(inst[i].event)

C12_AtMostOneStoreCall ==
  []C12_CallsState /\ [][C12_WriteStep /\ RejectionWritesNothing]_vars

\* the store refused the one call of a valid request, and the handler answered
C12_Witness ==
  \E i \in Instances :
    /\ Done(i) /\ RequiredValid(inst[i].event)
    /\ inst[i].sent = "rejected"
    /\ inst[i].calls = 1
    /\ inst[i].resp.statusCode = 500

(***************************************************************************)
(* C13: in every reachable state of the table, whatever timestamps the     *)
(* requests carried (integers, fractional numbers, numeric strings,        *)
(* booleans, or none), the timestamp key of every stored record is a whole *)
(* number of unix seconds.                                                 *)
(***************************************************************************)
C13_KeysAreWholeSeconds ==
  \A it \in store : it.timestamp.t = "number" /\ it.timestamp.m % 1000 = 0

=============================================================================
